---- MODULE Spec2Model ----
(***************************************************************************)
(* Model of Lidar_Stream.py: the LiDARStreamer transport session           *)
(* (connect_to_unity, send_frame, close), the capture-device hookup        *)
(* (connect_to_device, on_new_frame), the producer loop run() and the      *)
(* __main__ program that drives them.                                      *)
(*                                                                         *)
(* Spec    is the __main__ program (lines 183-212).                        *)
(* ApiSpec is a caller that invokes the public methods of one              *)
(*         LiDARStreamer in any order.                                     *)
(***************************************************************************)
EXTENDS Integers, Sequences, FiniteSets, TLC

\* ----------------------------------------------------------------- bounds
MaxFrames  == 2       \* send_frame calls that return in one behaviour
MaxDevices == 2       \* capture devices that may be attached
MaxCalls   == 4       \* method calls made by the ApiSpec caller

\* ------------------------------------------------------ program constants
max_retries == 10     \* connect_to_unity, line 47
retry_delay == 2      \* connect_to_unity, line 48

None == 0             \* self.sock = None

Angles == {0, 90, 180, 270}
\* device_index values the streamer is constructed with (default 0, line 16)
DeviceIndexes == {0, 1}
\* image shapes: one portrait, one square
Images == {[w |-> 1, h |-> 2], [w |-> 2, h |-> 2]}
\* shape of the depth maps the capture session delivers (one resolution per device)
DepthImages == {[w |-> 2, h |-> 1]}
Absent == [w |-> 0, h |-> 0]          \* a buffer the session returns as None
NoMap  == [w |-> 0, h |-> 0, px |-> <<>>]
NoFrame == [d |-> Absent, r |-> Absent]

\* ------------------------------------------------------------------ state
VARIABLES
    pc,              \* position of the (single) program thread
    caller,          \* who called connect_to_unity: "main", "run" or "api"
    sock,            \* self.sock: None or the index of a socket in sockets
    connected,       \* self.connected
    sockets,         \* every socket created: [open, conn, log]
    session,         \* self.session: "none", "idle", "streaming", "stopped"
    event,           \* self.event (threading.Event)
    device_index,    \* self.device_index
    rotation_angle,  \* self.rotation_angle
    attempt,         \* loop index of connect_to_unity
    sleeps,          \* time.sleep(retry_delay) calls of the current connect_to_unity
    frame,           \* depth / rgb_resized locals of run(): None or [w, h]
    frame_count,     \* frame_count local of run()
    sendRet,         \* value returned by the latest send_frame
    connRet,         \* value returned by the latest connect_to_unity ("none" while it runs)
    status,          \* exit status of the process (-1 while it runs)
    sends,           \* history: send_frame calls that have returned
    connects,        \* history: connect_to_unity calls made
    fatal,           \* history: the fatal condition met, if any
    signalled,       \* history: on_new_frame fired since the last buffer fetch
    lastCycle,       \* history: how the latest loop iteration ended
    calls,           \* history: method calls made by the ApiSpec caller
    closes,          \* history: close() calls that caller made in a row, up to now
    sendalls,        \* history: sock.sendall calls that returned or raised
    depth_map,       \* a depth frame handed to the encoder: w, h, samples
    packet,          \* the bytes send_frame builds for it
    received         \* what the receiver decodes from those bytes

vars == <<pc, caller, sock, connected, sockets, session, event, device_index,
          rotation_angle, attempt, sleeps, frame, frame_count, sendRet, connRet,
          status, sends, connects, fatal, signalled, lastCycle, calls, closes,
          sendalls, depth_map, packet, received>>

transport == <<sock, connected, sockets>>
connState == <<attempt, sleeps, connRet, connects>>
sendState == <<sendRet, sends, sendalls>>
apiHist   == <<calls, closes>>
loopState == <<frame, frame_count, event, signalled, lastCycle>>
config    == <<device_index, rotation_angle>>
codec     == <<depth_map, packet, received>>

ConnectPcs == {"connect_try", "connect_sleep", "connect_fail"}
RunPcs     == {"run_wait", "run_fetch", "run_send", "run_clear"}

\* ---------------------------------------------------------------- sockets
\* socket.socket(AF_INET, SOCK_STREAM): a fresh, open, unconnected socket
\* failed: history, the number of the send_frame call whose sendall failed on
\* this socket (0: none has)
NewSocket == [open |-> TRUE, conn |-> FALSE, log |-> <<>>, failed |-> 0]

\* sock.close(): idempotent, the descriptor is released
CloseSocket(ss, s) ==
    IF s = None THEN ss ELSE [ss EXCEPT ![s].open = FALSE, ![s].conn = FALSE]

\* self.sock = <new socket>: the index the new socket gets and the store with it
\* in place.  A socket that is closed, was never written to and is referenced by
\* nothing but the self.sock being overwritten is dropped: its slot is reused.
Garbage(ss, old) == old # None /\ ~ss[old].open /\ ss[old].log = <<>>

NewIndex(ss, old) == IF Garbage(ss, old) THEN old ELSE Len(ss) + 1

Assign(ss, old, new) ==
    IF Garbage(ss, old) THEN [ss EXCEPT ![old] = new] ELSE Append(ss, new)

OpenSockets == {s \in 1..Len(sockets) : sockets[s].open}

\* bytes ever written to socket s
RECURSIVE SumBytes(_)
SumBytes(log) == IF log = <<>> THEN 0 ELSE Head(log).n + SumBytes(Tail(log))

BytesWritten(s) == SumBytes(sockets[s].log)

RECURSIVE SumAll(_, _)
SumAll(ss, i) == IF i = 0 THEN 0 ELSE SumBytes(ss[i].log) + SumAll(ss, i - 1)

TotalBytes == SumAll(sockets, Len(sockets))


\* ------------------------------------------------------------------ frames
\* faulty variant of rotate_image: width and height are never swapped
rotate_image_NoSwap(image, angle) == image

\* rotate_image: 90 and 270 degrees swap width and height; 0, 180 and any
\* unsupported angle keep them
rotate_image(image, angle) ==
    IF angle = 90 \/ angle = 270
    THEN [w |-> image.h, h |-> image.w]
    ELSE image

\* cv2.resize(rgb, (depth.shape[1], depth.shape[0])): rgb takes depth's size
Resize(rgb, depth) == [w |-> depth.w, h |-> depth.h]

\* len(packet): struct.pack("<II") + uint16 depth plane + uint8 x 3 rgb plane
PacketLength(depth, rgb) == 8 + 2 * depth.w * depth.h + 3 * rgb.w * rgb.h

\* how many bytes of a failing sendall may have reached the socket: nothing,
\* part of the length prefix, the whole prefix, all but the last byte
PartialCuts(total) == {k \in {0, 1, 4, total - 1} : k >= 0 /\ k < total}

\* ------------------------------------------------------- connect_to_unity
\* entry of connect_to_unity (lines 45-50)
ConnectCall(who) ==
    /\ caller' = who
    /\ attempt' = 0
    /\ sleeps' = 0
    /\ connects' = connects + 1
    /\ connRet' = "none"
    /\ pc' = "connect_try"

\* faulty variant of ConnectReturn: __main__ goes on to the device although
\* connect_to_unity returned False
ConnectReturn_IgnoreFailure(result) ==
    /\ connRet' = (IF result THEN "True" ELSE "False")
    /\ attempt' = 0
    /\ sleeps' = 0
    /\ CASE caller = "main" ->
              /\ pc' = "device"
              /\ fatal' = (IF result THEN fatal ELSE "connect_failed")
              /\ UNCHANGED <<status, lastCycle>>
         [] caller = "run" ->
              IF result
              THEN pc' = "run_wait" /\ lastCycle' = "reconnected"
                   /\ UNCHANGED <<status, fatal>>
              ELSE pc' = "finally" /\ status' = 0 /\ fatal' = "reconnect_failed"
                   /\ lastCycle' = "terminated"
         [] OTHER ->
              pc' = "idle" /\ UNCHANGED <<status, fatal, lastCycle>>

\* what the caller does with the value connect_to_unity returns
ConnectReturn(result) ==
    /\ connRet' = (IF result THEN "True" ELSE "False")
    /\ attempt' = 0
    /\ sleeps' = 0
    /\ CASE caller = "main" ->
              IF result
              THEN pc' = "device" /\ UNCHANGED <<status, fatal, lastCycle>>
              ELSE pc' = "finally" /\ status' = 1 /\ fatal' = "connect_failed"
                   /\ UNCHANGED lastCycle
         [] caller = "run" ->
              IF result
              THEN pc' = "run_wait" /\ lastCycle' = "reconnected"
                   /\ UNCHANGED <<status, fatal>>
              ELSE pc' = "finally" /\ status' = 0 /\ fatal' = "reconnect_failed"
                   /\ lastCycle' = "terminated"
         [] OTHER ->
              pc' = "idle" /\ UNCHANGED <<status, fatal, lastCycle>>

\* one pass of the try block (lines 51-57) and of the handlers' close (58-61, 63-66)
ConnectTry ==
    /\ pc = "connect_try"
    /\ \E outcome \in {"ok", "refused", "error", "nosocket"} :
       \E gc \in (IF sock # None /\ sockets[sock].open THEN BOOLEAN ELSE {FALSE}) :
          LET released == IF gc THEN CloseSocket(sockets, sock) ELSE sockets
              s        == NewIndex(released, sock)
          IN  CASE outcome = "ok" ->
                     /\ sockets' = Assign(released, sock, [NewSocket EXCEPT !.conn = TRUE])
                     /\ sock' = s
                     /\ connected' = TRUE
                     /\ ConnectReturn(TRUE)
                [] outcome = "nosocket" ->
                     /\ sockets' = CloseSocket(sockets, sock)
                     /\ pc' = "connect_sleep"
                     /\ UNCHANGED <<sock, connected, connRet, attempt, sleeps, status,
                                    fatal, lastCycle>>
                [] OTHER ->
                     /\ sockets' = Assign(released, sock, [NewSocket EXCEPT !.open = FALSE])
                     /\ sock' = s
                     /\ pc' = "connect_sleep"
                     /\ UNCHANGED <<connected, connRet, attempt, sleeps, status, fatal,
                                    lastCycle>>
    /\ UNCHANGED <<caller, connects, session, config, codec, sendState,
                   frame, frame_count, event, signalled, apiHist>>

\* faulty variant of ConnectSleep: the loop runs one time too many
ConnectSleep_OffByOne ==
    /\ pc = "connect_sleep"
    /\ attempt <= max_retries
    /\ sleeps' = sleeps + 1
    /\ attempt' = attempt + 1
    /\ pc' = IF attempt + 1 <= max_retries THEN "connect_try" ELSE "connect_fail"
    /\ UNCHANGED <<caller, transport, connRet, connects, session, config, codec, sendState,
                   loopState, status, fatal, apiHist>>

\* time.sleep(retry_delay) in a handler, then the loop header (lines 62, 67, 50)
ConnectSleep ==
    /\ pc = "connect_sleep"
    /\ sleeps' = sleeps + 1
    /\ attempt' = attempt + 1
    /\ pc' = IF attempt + 1 < max_retries THEN "connect_try" ELSE "connect_fail"
    /\ UNCHANGED <<caller, transport, connRet, connects, session, config, codec, sendState,
                   loopState, status, fatal, apiHist>>

\* after the loop (lines 69-70)
ConnectGiveUp ==
    /\ pc = "connect_fail"
    /\ ConnectReturn(FALSE)
    /\ UNCHANGED <<caller, transport, connects, session, config, codec,
                   sendState, frame, frame_count, event, signalled, apiHist>>

\* an object that lost its last reference may be finalized at any later time
Finalize ==
    /\ pc # "exited"
    /\ \E s \in OpenSockets :
         /\ s # sock
         /\ sockets' = CloseSocket(sockets, s)
    /\ UNCHANGED <<pc, caller, sock, connected, connState, session, config, codec, sendState,
                   loopState, status, fatal, apiHist>>

\* ------------------------------------------------------------- send_frame
\* faulty variant of SendAll: a failed sendall leaves connected as it was
SendAll_StayConnected(d, r, ok, k) ==
    LET len      == PacketLength(d, r)
        usable   == sock # None /\ sockets[sock].open /\ sockets[sock].conn
        entry(n) == [id |-> sends + 1, w |-> d.w, h |-> d.h, rw |-> r.w, rh |-> r.h,
                     len |-> len, n |-> n]
    IN  /\ sendalls' = sendalls + 1
        /\ UNCHANGED connected
        /\ IF ok /\ usable
           THEN /\ sockets' = [sockets EXCEPT ![sock].log = Append(@, entry(4 + len))]
                /\ sendRet' = "True"
           ELSE /\ sockets' = IF usable
                              THEN [sockets EXCEPT
                                      ![sock].log = IF k > 0 THEN Append(@, entry(k)) ELSE @,
                                      ![sock].failed = sends + 1]
                              ELSE sockets
                /\ sendRet' = "False"

\* what sock.sendall(length_bytes + packet) does to the transport (line 123) and
\* what send_frame then returns (lines 124-129)
SendAll(d, r, ok, k) ==
    LET len      == PacketLength(d, r)
        usable   == sock # None /\ sockets[sock].open /\ sockets[sock].conn
        entry(n) == [id |-> sends + 1, w |-> d.w, h |-> d.h, rw |-> r.w, rh |-> r.h,
                     len |-> len, n |-> n]
    IN  /\ sendalls' = sendalls + 1
        /\ IF ok /\ usable
           THEN /\ sockets' = [sockets EXCEPT ![sock].log = Append(@, entry(4 + len))]
                /\ sendRet' = "True"
                /\ UNCHANGED connected
           ELSE /\ sockets' = IF usable
                              THEN [sockets EXCEPT
                                      ![sock].log = IF k > 0 THEN Append(@, entry(k)) ELSE @,
                                      ![sock].failed = sends + 1]
                              ELSE sockets
                /\ connected' = FALSE
                /\ sendRet' = "False"

\* an exception raised by lines 100-117, before sendall, lands in the same
\* handler (lines 126-129)
EncodeRaises ==
    /\ connected' = FALSE
    /\ sendRet' = "False"
    /\ UNCHANGED <<sockets, sendalls>>

\* the arrays send_frame builds the packet from (lines 100-103)
Rotated(image) ==
    IF rotation_angle # 0 THEN rotate_image(image, rotation_angle) ELSE image

\* faulty variant of send_frame: the "if not self.connected" test is missing
send_frame_NoGuard(depth, rgb, ok, k) ==
    /\ sends' = sends + 1
    /\ UNCHANGED sock
    /\ IF depth = Absent \/ rgb = Absent
       THEN EncodeRaises
       ELSE SendAll(Rotated(depth), Rotated(rgb), ok, k)

\* send_frame(depth, rgb) (lines 94-129); ok: sendall succeeds, k: bytes a
\* failing sendall wrote before raising.  A depth or rgb that is no array
\* (Absent) makes the encoding raise.
send_frame(depth, rgb, ok, k) ==
    /\ sends' = sends + 1
    /\ UNCHANGED sock
    /\ IF ~connected
       THEN sendRet' = "False" /\ UNCHANGED <<connected, sockets, sendalls>>
       ELSE IF depth = Absent \/ rgb = Absent
            THEN EncodeRaises
            ELSE SendAll(Rotated(depth), Rotated(rgb), ok, k)

\* ------------------------------------------------------------------ close
\* faulty variant of close: the flag is not reset
close_KeepFlag ==
    /\ sockets' = CloseSocket(sockets, sock)
    /\ session' = IF session # "none" THEN "stopped" ELSE session
    /\ UNCHANGED <<sock, connected>>

\* close() (lines 175-181)
close ==
    /\ connected' = FALSE
    /\ sockets' = CloseSocket(sockets, sock)
    /\ session' = IF session # "none" THEN "stopped" ELSE session
    /\ UNCHANGED sock


\* ------------------------------------------------------ connect_to_device
\* connect_to_device() as called by __main__ (lines 72-86, 204, 209-210):
\* n devices are attached; started: session.connect(dev) did not raise
DeviceConnect ==
    /\ pc = "device"
    /\ \E n \in 0..MaxDevices, started \in BOOLEAN :
         IF n = 0 \/ n <= device_index
         THEN /\ fatal' = (IF n = 0 THEN "no_device" ELSE "index_range")
              /\ pc' = "finally"
              /\ status' = 0
              /\ UNCHANGED session
         ELSE IF started
              THEN /\ session' = "streaming"
                   /\ pc' = "run_wait"
                   /\ UNCHANGED <<status, fatal>>
              ELSE /\ session' = "idle"
                   /\ fatal' = "device_error"
                   /\ pc' = "finally"
                   /\ status' = 0
    /\ UNCHANGED <<caller, transport, connState, config, codec, sendState, loopState, apiHist>>

\* on_new_frame (lines 88-89), called on the capture library's thread
OnNewFrame ==
    /\ session = "streaming"
    /\ pc # "exited"
    /\ event' = TRUE
    /\ signalled' = TRUE
    /\ UNCHANGED <<pc, caller, transport, connState, session, config, codec, sendState,
                   frame, frame_count, lastCycle, status, fatal, apiHist>>

\* -------------------------------------------------------------------- run
\* self.event.wait(timeout=1.0) returns True (line 138); a timeout and a
\* missing session (lines 139, 142) restart the iteration and change nothing
RunWait ==
    /\ pc = "run_wait"
    /\ event
    /\ pc' = IF session = "none" THEN "run_wait" ELSE "run_fetch"
    /\ UNCHANGED <<caller, transport, connState, session, config, codec, sendState,
                   loopState, status, fatal, apiHist>>

\* get_depth_frame / get_rgb_frame, the None test and cv2.resize (lines 145-152)
RunFetch ==
    /\ pc = "run_fetch"
    /\ \E depth \in DepthImages \cup {Absent}, rgb \in Images \cup {Absent} :
         IF depth = Absent \/ rgb = Absent
         THEN /\ pc' = "run_wait"
              /\ lastCycle' = "skipped"
              /\ frame' = NoFrame
         ELSE /\ pc' = "run_send"
              /\ lastCycle' = "fetched"
              /\ frame' = [d |-> depth, r |-> Resize(rgb, depth)]
    /\ signalled' = FALSE
    /\ UNCHANGED <<caller, transport, connState, session, config, codec, sendState,
                   frame_count, event, status, fatal, apiHist>>

\* faulty variant of RunSendFailed: the loop breaks without reconnecting
RunSendFailed_Break ==
    /\ pc' = "finally"
    /\ status' = 0
    /\ fatal' = "reconnect_failed"
    /\ lastCycle' = "terminated"
    /\ UNCHANGED <<caller, connState, frame_count>>

\* what run() does when send_frame returned False (lines 160-164)
RunSendFailed ==
    /\ ConnectCall("run")
    /\ lastCycle' = "send_failed"
    /\ UNCHANGED <<frame_count, status, fatal>>

\* what run() does when send_frame returned True (lines 156-158)
RunSendOk ==
    /\ frame_count' = frame_count + 1
    /\ pc' = "run_clear"
    /\ lastCycle' = "sent"
    /\ UNCHANGED <<caller, connState, status, fatal>>

\* self.send_frame(depth, rgb_resized) and the branch on its result (line 155)
RunSend ==
    /\ pc = "run_send"
    /\ sends < MaxFrames
    /\ \E ok \in BOOLEAN :
       \E k \in PartialCuts(4 + PacketLength(frame.d, frame.r)) :
          send_frame(frame.d, frame.r, ok, k)
    /\ IF sendRet' = "True" THEN RunSendOk ELSE RunSendFailed
    /\ UNCHANGED <<session, config, codec, frame, event, signalled, apiHist>>

\* self.event.clear() (line 166)
RunClear ==
    /\ pc = "run_clear"
    /\ event' = FALSE
    /\ pc' = "run_wait"
    /\ lastCycle' = "cleared"
    /\ UNCHANGED <<caller, transport, connState, session, config, codec, sendState,
                   frame, frame_count, signalled, status, fatal, apiHist>>

\* an exception raised inside the loop body (lines 171-173): break
LoopException ==
    /\ pc = "run_fetch"
    /\ pc' = "finally"
    /\ status' = 0
    /\ lastCycle' = "exception"
    /\ UNCHANGED <<caller, transport, connState, session, config, codec, sendState,
                   frame, frame_count, event, signalled, fatal, apiHist>>

\* transport state left behind when KeyboardInterrupt arrives in a blocking call:
\* inside sock.connect the new socket is already assigned and open (lines 53-54),
\* inside sendall a part of the packet may be written (line 123)
Interrupted ==
    CASE pc = "connect_try" ->
           /\ sockets' = Assign(sockets, sock, NewSocket)
           /\ sock' = NewIndex(sockets, sock)
           /\ UNCHANGED connected
      [] pc = "run_send" ->
           /\ \E k \in PartialCuts(4 + PacketLength(frame.d, frame.r)) :
                sockets' = IF k > 0 /\ connected
                           THEN [sockets EXCEPT
                                   ![sock].log = Append(@,
                                     [id |-> sends + 1,
                                      w |-> Rotated(frame.d).w, h |-> Rotated(frame.d).h,
                                      rw |-> Rotated(frame.r).w, rh |-> Rotated(frame.r).h,
                                      len |-> PacketLength(frame.d, frame.r), n |-> k]),
                                   ![sock].failed = sends + 1]
                           ELSE sockets
           /\ UNCHANGED <<sock, connected>>
      [] OTHER -> UNCHANGED transport

\* the exception leaves connect_to_unity, if it was in it: its locals are gone
Unwind == attempt' = 0 /\ sleeps' = 0

\* KeyboardInterrupt inside run(), caught at lines 168-170: break
InterruptRun ==
    /\ \/ pc \in {"run_wait", "run_send"}
       \/ pc \in {"connect_try", "connect_sleep"} /\ caller = "run"
    /\ Interrupted
    /\ pc' = "finally"
    /\ status' = 0
    /\ lastCycle' = "interrupted"
    /\ Unwind
    /\ UNCHANGED <<caller, connRet, connects, session, config, codec, sendState, frame,
                   frame_count, event, signalled, fatal, apiHist>>

\* --------------------------------------------------------------- __main__
\* input(...) returns and connect_to_unity is called (lines 196-199)
Input ==
    /\ pc = "input"
    /\ ConnectCall("main")
    /\ UNCHANGED <<transport, session, config, codec, sendState, loopState,
                   status, fatal, apiHist>>

\* KeyboardInterrupt outside run(): not an Exception, so only finally handles it
InterruptMain ==
    /\ \/ pc = "input"
       \/ pc \in {"connect_try", "connect_sleep"} /\ caller = "main"
    /\ Interrupted
    /\ pc' = "finally"
    /\ status' = 130
    /\ Unwind
    /\ UNCHANGED <<caller, connRet, connects, session, config, codec, sendState, loopState,
                   fatal, apiHist>>

\* finally: streamer.close(), then the process ends (lines 211-212)
Finally ==
    /\ pc = "finally"
    /\ close
    /\ pc' = "exited"
    /\ UNCHANGED <<caller, connState, config, codec, sendState, loopState, status, fatal, apiHist>>

\* ------------------------------------------------------------ the program
\* LiDARStreamer.__init__ (lines 16-29) and the start of __main__
Construct ==
    /\ sock = None
    /\ connected = FALSE
    /\ sockets = <<>>
    /\ session = "none"
    /\ event = FALSE
    /\ device_index \in DeviceIndexes
    /\ rotation_angle \in Angles
    /\ attempt = 0
    /\ sleeps = 0
    /\ frame = NoFrame
    /\ frame_count = 0
    /\ sendRet = "none"
    /\ connRet = "none"
    /\ status = -1
    /\ sends = 0
    /\ connects = 0
    /\ fatal = "none"
    /\ signalled = FALSE
    /\ lastCycle = "none"
    /\ calls = 0
    /\ closes = 0
    /\ sendalls = 0

\* no frame is being encoded
CodecIdle == depth_map = NoMap /\ packet = <<>> /\ received = NoMap

Init ==
    /\ Construct
    /\ CodecIdle
    /\ pc = "input"
    /\ caller = "main"

Next ==
    \/ Input
    \/ ConnectTry
    \/ ConnectSleep
    \/ ConnectGiveUp
    \/ Finalize
    \/ DeviceConnect
    \/ OnNewFrame
    \/ RunWait
    \/ RunFetch
    \/ RunSend
    \/ RunClear
    \/ LoopException
    \/ InterruptRun
    \/ InterruptMain
    \/ Finally

Spec == Init /\ [][Next]_vars

\* ------------------------------------------------- a caller of the methods
\* connect_to_unity() called on the streamer
ApiConnect ==
    /\ pc = "idle"
    /\ calls < MaxCalls
    /\ calls' = calls + 1
    /\ closes' = 0
    /\ ConnectCall("api")
    /\ UNCHANGED <<transport, session, config, codec, sendState, loopState,
                   status, fatal>>

\* send_frame(depth, rgb) called on the streamer
ApiSend ==
    /\ pc = "idle"
    /\ calls < MaxCalls
    /\ calls' = calls + 1
    /\ closes' = 0
    /\ \E depth \in Images \cup {Absent}, rgb \in Images \cup {Absent}, ok \in BOOLEAN :
       \E k \in PartialCuts(4 + PacketLength(rotate_image(depth, rotation_angle),
                                             rotate_image(rgb, rotation_angle))) :
          send_frame(depth, rgb, ok, k)
    /\ UNCHANGED <<pc, caller, connState, session, config, codec, loopState, status, fatal>>

\* close() called on the streamer
ApiClose ==
    /\ pc = "idle"
    /\ calls < MaxCalls
    /\ calls' = calls + 1
    /\ closes' = closes + 1
    /\ close
    /\ UNCHANGED <<pc, caller, connState, config, codec, sendState, loopState, status, fatal>>

ApiInit ==
    /\ Construct
    /\ CodecIdle
    /\ pc = "idle"
    /\ caller = "api"

ApiNext ==
    \/ ApiConnect
    \/ ApiSend
    \/ ApiClose
    \/ ConnectTry
    \/ ConnectSleep
    \/ ConnectGiveUp
    \/ Finalize

ApiSpec == ApiInit /\ [][ApiNext]_vars

\* ------------------------------------------------------------ the encoder
\* Depth samples are metres, held here as whole micrometres so that
\* depth * 1000 (millimetres) keeps its fraction.
DepthSamples == {-1500, -500, 0, 999, 1900, 2000, 4999999, 5000000, 6000000,
                 65537000}
EncShapes == {[w |-> 1, h |-> 1], [w |-> 2, h |-> 1], [w |-> 1, h |-> 2]}
DepthMaps ==
    UNION {{[w |-> s.w, h |-> s.h, px |-> p] : p \in [1..(s.w * s.h) -> DepthSamples]}
           : s \in EncShapes}

\* the integer part of um / 1000, cut toward zero as a C float-to-integer
\* conversion does
Truncate(um) == IF um >= 0 THEN um \div 1000 ELSE -((-um) \div 1000)

\* (depth * 1000).astype(np.uint16) for one sample (line 106).  A value whose
\* integer part fits 0..65535 converts to it; for any other value the C cast
\* numpy performs is undefined: builds either wrap modulo 2^16 or saturate.
ToUint16(um, cast) ==
    LET t == Truncate(um)
    IN  IF t \in 0..65535 THEN t
        ELSE IF cast = "wrap" THEN t % 65536
        ELSE IF t < 0 THEN 0 ELSE 65535

\* struct.pack("<I", v) and the two bytes of a little-endian uint16
LE32(v) == <<v % 256, (v \div 256) % 256, (v \div 65536) % 256, (v \div 16777216) % 256>>
LE16(v) == <<v % 256, v \div 256>>

RECURSIVE Flatten(_)
\* the concatenation of a sequence of byte sequences (flatten().tobytes())
Flatten(ss) == IF ss = <<>> THEN <<>> ELSE Head(ss) \o Flatten(Tail(ss))

\* length_bytes + packet of send_frame for a depth map and an RGB image of the
\* same shape whose every channel is 0 (lines 106-123, rotation 0)
Encode(map, cast) ==
    LET n           == map.w * map.h
        depth_bytes == Flatten([i \in 1..n |-> LE16(ToUint16(map.px[i], cast))])
        rgb_bytes   == [i \in 1..(3 * n) |-> 0]
        body        == LE32(map.w) \o LE32(map.h) \o depth_bytes \o rgb_bytes
    IN  LE32(Len(body)) \o body

\* the receiver's reading of the bytes: the inverse of the layout of lines
\* 116-121 (length, width, height, then little-endian uint16 samples)
U32(b, i) == b[i] + 256 * b[i + 1] + 65536 * b[i + 2] + 16777216 * b[i + 3]
U16(b, i) == b[i] + 256 * b[i + 1]
Decode(b) ==
    LET w == U32(b, 5)
        h == U32(b, 9)
    IN  [w |-> w, h |-> h, px |-> [i \in 1..(w * h) |-> U16(b, 13 + 2 * (i - 1))]]

\* send_frame builds the bytes for depth_map
EncodeFrame ==
    /\ pc = "enc_input"
    /\ \E cast \in {"wrap", "saturate"} : packet' = Encode(depth_map, cast)
    /\ pc' = "enc_packed"
    /\ UNCHANGED <<caller, transport, connState, session, config, sendState,
                   loopState, status, fatal, apiHist, depth_map, received>>

\* the receiver decodes them
DecodeFrame ==
    /\ pc = "enc_packed"
    /\ received' = Decode(packet)
    /\ pc' = "enc_decoded"
    /\ UNCHANGED <<caller, transport, connState, session, config, sendState,
                   loopState, status, fatal, apiHist, depth_map, packet>>

\* a streamer configured with rotation 0 is given one depth map to encode
EncInit ==
    /\ Construct
    /\ rotation_angle = 0
    /\ pc = "enc_input"
    /\ caller = "api"
    /\ depth_map \in DepthMaps
    /\ packet = <<>>
    /\ received = NoMap

EncNext ==
    \/ EncodeFrame
    \/ DecodeFrame

EncSpec == EncInit /\ [][EncNext]_vars

\* ------------------------------------------------------------------ types
TypeOK ==
    /\ pc \in {"input", "device", "finally", "exited", "idle"} \cup ConnectPcs
             \cup RunPcs \cup {"enc_input", "enc_packed", "enc_decoded"}
    /\ caller \in {"main", "run", "api"}
    /\ sock \in 0..Len(sockets)
    /\ connected \in BOOLEAN
    /\ session \in {"none", "idle", "streaming", "stopped"}
    /\ event \in BOOLEAN
    /\ device_index \in DeviceIndexes
    /\ rotation_angle \in Angles
    /\ attempt \in 0..max_retries
    /\ sleeps \in 0..max_retries
    /\ frame_count \in 0..MaxFrames
    /\ sendRet \in {"none", "True", "False"}
    /\ connRet \in {"none", "True", "False"}
    /\ status \in {-1, 0, 1, 130}
    /\ sends \in (0..MaxFrames) \cup (0..MaxCalls)
    /\ signalled \in BOOLEAN
    /\ calls \in 0..MaxCalls
    /\ closes \in 0..calls
    /\ sendalls \in 0..sends
    /\ depth_map \in DepthMaps \cup {NoMap}
    /\ \A i \in 1..Len(packet) : packet[i] \in 0..255
    /\ Len(received.px) = received.w * received.h


\* ================================================================= claims
EnteredRun == pc \in RunPcs \/ caller = "run" \/ lastCycle # "none"

\* send_frame returns in this step / returns False in this step
SendReturns == sends' = sends + 1
SendFails   == SendReturns /\ sendRet' = "False"

\* connect_to_unity returns in this step
ConnectReturns == connRet = "none" /\ connRet' # "none"

\* C1: in run(), a send_frame that returns False is followed at once by one call
\* of connect_to_unity; during that call the loop neither sends nor calls it
\* again; when it returns False the loop ends and nothing is sent afterwards,
\* when it returns True the loop is back at event.wait.
C1_OneReconnectCycle ==
    [][ /\ (pc = "run_send" /\ SendFails)
            => (pc' = "connect_try" /\ caller' = "run" /\ attempt' = 0
                /\ connects' = connects + 1)
        /\ (caller = "run" /\ pc \in ConnectPcs)
            => (connects' = connects /\ sends' = sends)
        /\ (caller = "run" /\ ConnectReturns /\ connRet' = "False")
            => pc' = "finally"
        /\ (caller = "run" /\ ConnectReturns /\ connRet' = "True")
            => pc' = "run_wait"
        /\ (pc \in {"finally", "exited"})
            => (sends' = sends /\ connects' = connects /\ TotalBytes' = TotalBytes)
      ]_vars

\* a second send failed after a first reconnect succeeded, and the second
\* reconnect cycle failed, ending the loop
C1_Witness ==
    /\ pc = "exited"
    /\ fatal = "reconnect_failed"
    /\ sends = 2
    /\ connects = 3

\* C2: a send_frame whose I/O fails leaves connected = False, returns False and
\* starts no connection attempt; a send_frame called while disconnected returns
\* False and writes nothing; only a connect_to_unity that returns True ends the
\* disconnected period.
C2_FailedSendDisconnects ==
    [][ /\ (SendFails /\ connected)
            => (~connected' /\ connects' = connects /\ pc' = pc /\ sock' = sock
                /\ Len(sockets') = Len(sockets) /\ OpenSockets' = OpenSockets)
        /\ (SendReturns /\ ~connected)
            => (sendRet' = "False" /\ ~connected' /\ sockets' = sockets)
        /\ (~connected /\ connected')
            => (pc = "connect_try" /\ connRet' = "True")
      ]_vars

\* a send failed on the connection after one byte at least, and a second
\* send_frame was called while still disconnected
C2_Witness ==
    /\ sends = 2
    /\ sendRet = "False"
    /\ ~connected
    /\ sock # None
    /\ Len(sockets[sock].log) = 1
    /\ sockets[sock].log[1].id = 1
    /\ sockets[sock].log[1].n < 4 + sockets[sock].log[1].len

\* C3: connect_to_unity makes at most max_retries attempts; the first attempt
\* that succeeds returns True at once with connected = True; it returns False
\* exactly when max_retries attempts have failed.
C3_BoundedRetries ==
    /\ [](/\ attempt <= max_retries
          /\ (pc = "connect_try" => attempt < max_retries)
          /\ (pc = "connect_fail" => attempt = max_retries))
    /\ [][ /\ (pc = "connect_try" /\ connected')
               => (ConnectReturns /\ connRet' = "True" /\ pc' \notin ConnectPcs
                   /\ sockets'[sock'].open /\ sockets'[sock'].conn)
           /\ (ConnectReturns /\ connRet' = "True")
               => (pc = "connect_try" /\ attempt < max_retries /\ connected'
                   /\ sockets'[sock'].conn)
           /\ (ConnectReturns /\ connRet' = "False")
               => (pc = "connect_fail" /\ attempt = max_retries)
           /\ (pc = "connect_fail" /\ pc' # pc)
               => (ConnectReturns /\ connRet' = "False")
         ]_vars

\* all max_retries attempts of the initial connect have failed
C3_Witness == pc = "connect_fail" /\ attempt = max_retries /\ caller = "main"

\* C4 (as claimed): when every attempt fails, connect_to_unity has slept
\* max_retries - 1 times when it gives up, with no sleep after the last attempt.
C4_NoTrailingSleep == pc = "connect_fail" => sleeps = max_retries - 1

\* C5 (as claimed): at most one socket created by the streamer is open.
C5_OneOpenSocket == Cardinality(OpenSockets) <= 1

\* C6 (as claimed): when the process has ended, every socket the streamer
\* opened is closed and a capture session that was created is stopped.
C6_AllReleased ==
    pc = "exited" => (OpenSockets = {} /\ session \in {"none", "stopped"})

\* C7 (as claimed): after a cycle skipped for a missing buffer, the buffers are
\* fetched again only once on_new_frame has fired since the previous fetch.
C7_SkipWaitsForSignal ==
    [][ (pc = "run_fetch" /\ lastCycle = "skipped" /\ signalled' = FALSE
         /\ pc' \in {"run_wait", "run_send"})
            => signalled
      ]_vars

\* C8 (as claimed): a send_frame that returns False has written no byte; one
\* that returns True has written the whole length prefix and body to self.sock.
C8_AllOrNothing ==
    [][ /\ SendFails => TotalBytes' = TotalBytes
        /\ (SendReturns /\ sendRet' = "True")
            => /\ Len(sockets'[sock].log) = Len(sockets[sock].log) + 1
               /\ LET e == sockets'[sock].log[Len(sockets'[sock].log)]
                  IN  e.n = 4 + e.len
      ]_vars

\* C9 (as claimed): a process that met a fatal condition exits nonzero.
C9_FatalExitsNonzero ==
    (pc = "exited"
       /\ fatal \in {"no_device", "index_range", "connect_failed", "reconnect_failed"})
    => status # 0

\* C10: run() is entered only with the transport connected once and the capture
\* session streaming; after a failed initial connect the device is never
\* touched, and after either failure run() is never entered and no byte is sent.
C10_RunNeedsBothConnects ==
    /\ EnteredRun => /\ session \in {"streaming", "stopped"}
                     /\ sock # None
                     /\ fatal \notin {"connect_failed", "no_device", "index_range",
                                      "device_error"}
    /\ fatal = "connect_failed"
         => (session = "none" /\ ~EnteredRun /\ TotalBytes = 0)
    /\ fatal \in {"no_device", "index_range", "device_error"}
         => (~EnteredRun /\ TotalBytes = 0 /\ session \in {"none", "idle", "stopped"})

\* the initial connect failed and the process has ended
C10_Witness == pc = "exited" /\ fatal = "connect_failed" /\ status = 1

\* every packet (whole or cut short) written to any socket
Entries ==
    UNION {{sockets[s].log[i] : i \in 1..Len(sockets[s].log)} : s \in 1..Len(sockets)}

\* C11 (as claimed): send_frame writes no packet for planes of different
\* shapes: in every packet on the wire the header's width and height describe
\* the RGB plane as well as the depth plane.
C11_MismatchRejected ==
    \A e \in Entries : e.len = 8 + 2 * e.w * e.h + 3 * e.w * e.h

\* a step that is one call of close() / one call of send_frame by the caller
CloseStep == closes' = closes + 1
Released == sock = None \/ ~sockets[sock].open

\* C12: close() leaves connected = False and self.sock released whatever the
\* state it is called in; a second close() in a row changes nothing (transport,
\* flag and capture session stay as the first call left them); a send_frame
\* right after close() returns False and writes nothing.
C12_CloseIdempotent ==
    [][ /\ CloseStep => /\ ~connected'
                        /\ Released'
                        /\ closes >= 1 => UNCHANGED <<transport, session>>
        /\ (closes >= 1 /\ SendReturns)
             => (sendRet' = "False" /\ UNCHANGED <<transport, sendalls>>) ]_vars

\* close() was called twice in a row on a streamer that had sent a packet
C12_Witness == closes = 2 /\ sock # None /\ sockets[sock].log # <<>> /\ ~connected

\* C13 (as claimed): connected becomes True only in a connect attempt of
\* connect_to_unity that succeeds, and becomes False only in close() or in a
\* send_frame whose sock.sendall failed.
C13_FlagTransitions ==
    [][ /\ (~connected /\ connected') => (pc = "connect_try" /\ sock' # None)
        /\ (connected /\ ~connected')
             => (CloseStep \/ (SendReturns /\ sendalls' = sendalls + 1)) ]_vars

\* the packet the last sendall put on self.sock
LastEntry == sockets[sock].log[Len(sockets[sock].log)]

\* C14: a frame that run() sends is written as a 4-byte length N and N bytes,
\* N = 8 + 2*w*h + 3*w*h, where w and h in the header are the source depth
\* frame's width and height, swapped for 90 and 270 degrees, and the RGB plane
\* in the packet has the same w x h.
C14_RunPacketLayout ==
    [][ (pc = "run_send" /\ SendReturns /\ sendRet' = "True")
        => LET e    == LastEntry'
               swap == rotation_angle \in {90, 270}
           IN  /\ rotation_angle \in {0, 90, 180, 270}
               /\ Len(sockets'[sock].log) = Len(sockets[sock].log) + 1
               /\ e.w = (IF swap THEN frame.d.h ELSE frame.d.w)
               /\ e.h = (IF swap THEN frame.d.w ELSE frame.d.h)
               /\ e.rw = e.w /\ e.rh = e.h
               /\ e.len = 8 + 2 * e.w * e.h + 3 * e.w * e.h
               /\ e.n = 4 + e.len ]_vars

\* run() sent a whole packet of a frame rotated by 90 degrees
C14_Witness ==
    /\ EnteredRun /\ rotation_angle = 90 /\ sendRet = "True"
    /\ sock # None /\ sockets[sock].log # <<>>
    /\ LastEntry.w = 1 /\ LastEntry.h = 2 /\ LastEntry.n = 4 + LastEntry.len

\* the depth samples carried by the packet, in millimetres
WireDepth == Decode(packet).px

\* C15 (as claimed): every depth sample written into a packet lies in
\* 0..5000 millimetres, whatever the input depth map holds.
C15_DepthSanitized ==
    packet # <<>> => \A i \in 1..Len(WireDepth) : WireDepth[i] \in 0..5000

\* C16 (as claimed): for a depth map whose samples all lie in 0..5 m, decoding
\* the packet gives back its width and height and every sample rounded to the
\* nearest millimetre.
C16_RoundTrip ==
    (pc = "enc_decoded" /\ \A i \in 1..Len(depth_map.px) : depth_map.px[i] \in 0..5000000)
    => /\ received.w = depth_map.w
       /\ received.h = depth_map.h
       /\ \A i \in 1..Len(depth_map.px) :
             received.px[i] = (depth_map.px[i] + 500) \div 1000

\* C17 (as claimed): a signal raised by on_new_frame after the loop's latest
\* fetch is still pending when the loop next waits, so the loop fetches again
\* without a further signal.
C17_NoLostSignal ==
    (pc = "run_wait" /\ session = "streaming" /\ signalled) => event

\* self.sock is a socket that is open and whose connect succeeded
Usable == sock # None /\ sockets[sock].open /\ sockets[sock].conn

\* C18 (as claimed): whenever connected is True, self.sock is an open socket
\* whose connect succeeded.
C18_ConnectedHasSocket == connected => Usable

\* the packet at place i of a log is whole
Whole(log, i) == log[i].n = 4 + log[i].len

\* C19: on every connection the bytes written are whole packets in the order
\* of the send_frame calls, then at most one packet cut short, which is the
\* last; nothing is written to a connection after a sendall on it has failed.
C19_FramingInSync ==
    \A s \in 1..Len(sockets) :
       LET log == sockets[s].log
       IN  \A i \in 1..Len(log) :
              /\ log[i].n \in 1..(4 + log[i].len)
              /\ i < Len(log) => Whole(log, i)
              /\ i > 1 => log[i - 1].id < log[i].id
              /\ ~Whole(log, i) => sockets[s].failed = log[i].id
              /\ sockets[s].failed # 0 => log[i].id <= sockets[s].failed

\* a send was cut short on one connection and a later frame went out whole
\* on a connection opened afterwards
C19_Witness ==
    \E s, u \in 1..Len(sockets) :
       /\ s # u
       /\ Len(sockets[s].log) = 1 /\ ~Whole(sockets[s].log, 1)
       /\ Len(sockets[u].log) = 1 /\ Whole(sockets[u].log, 1)
       /\ sockets[s].log[1].id < sockets[u].log[1].id

====
